---- MODULE Spec2Model ----
(***************************************************************************)
(* Model of tools/build_local_inventory.py: the Local Inventory feed       *)
(* builder (configuration check, fetch with retry, two-pass item           *)
(* extraction, availability normalisation, XML and TSV writers).           *)
(*                                                                         *)
(* Text values (Python str / bytes) are sequences of one-character         *)
(* strings, so that strip(), lower() and the whitespace collapse are       *)
(* computed character by character.  The letter U+0119 (e with ogonek) is  *)
(* written "eogonek" and its capital "EOGONEK".  Python's None is the      *)
(* value None below, which is no text value.                               *)
(***************************************************************************)
EXTENDS Integers, Sequences, FiniteSets, TLC

VARIABLES
    SOURCE_FEED_URL,        \* os.environ.get("SOURCE_FEED_URL")
    STORE_CODE,             \* os.environ.get("STORE_CODE")
    DEFAULT_AVAILABILITY,   \* os.environ.get("DEFAULT_AVAILABILITY", "in_stock")
    pc,                     \* position of the script
    attempt,                \* loop variable of fetch_xml
    outcomes,               \* outcome of every urlopen attempt made so far
    slept,                  \* argument of every time.sleep call made so far
    tree,                   \* the parsed document held by main
    items,                  \* the item list held by main
    distDir,                \* whether this run has created dist/
    xmlFile,                \* dist/<base>.xml as left by this run
    tsvFile,                \* dist/<base>.tsv as left by this run
    exitCode,               \* exit status of the process, -1 while running
    err,                    \* the error that ended the run
    val,                    \* argument of a direct normalize_availability call
    ret                     \* its return value

vars == <<SOURCE_FEED_URL, STORE_CODE, DEFAULT_AVAILABILITY, pc, attempt,
          outcomes, slept, tree, items, distDir, xmlFile, tsvFile, exitCode,
          err, val, ret>>

(***************************************************************************)
(* Text                                                                    *)
(***************************************************************************)
None == <<"None">>

\* Python truthiness of an optional text value: neither None nor "".
Truthy(s) == s # None /\ s # <<>>

Whitespace == {" ", "\t", "\n", "\r"}

UpperCase == <<"A", "B", "C", "D", "E", "F", "G", "H", "I", "J", "K", "L", "M",
               "N", "O", "P", "Q", "R", "S", "T", "U", "V", "W", "X", "Y", "Z",
               "EOGONEK">>
LowerCase == <<"a", "b", "c", "d", "e", "f", "g", "h", "i", "j", "k", "l", "m",
               "n", "o", "p", "q", "r", "s", "t", "u", "v", "w", "x", "y", "z",
               "eogonek">>

lowerChar(c) ==
    IF \E i \in DOMAIN UpperCase : UpperCase[i] = c
    THEN LowerCase[CHOOSE i \in DOMAIN UpperCase : UpperCase[i] = c]
    ELSE c

upperChar(c) ==
    IF \E i \in DOMAIN LowerCase : LowerCase[i] = c
    THEN UpperCase[CHOOSE i \in DOMAIN LowerCase : LowerCase[i] = c]
    ELSE c

\* str.lower()
lower(s) == [i \in DOMAIN s |-> lowerChar(s[i])]

RECURSIVE lstrip(_)
lstrip(s) ==
    IF s # <<>> /\ Head(s) \in Whitespace THEN lstrip(Tail(s)) ELSE s

RECURSIVE rstrip(_)
rstrip(s) ==
    IF s # <<>> /\ s[Len(s)] \in Whitespace
    THEN rstrip(SubSeq(s, 1, Len(s) - 1))
    ELSE s

\* str.strip() / bytes.strip()
strip(s) == rstrip(lstrip(s))

\* re.sub(r"\s+", " ", s): every maximal whitespace run becomes one space.
RECURSIVE collapse(_)
collapse(s) ==
    IF s = <<>> THEN <<>>
    ELSE IF Head(s) \in Whitespace
         THEN <<" ">> \o collapse(lstrip(s))
         ELSE <<Head(s)>> \o collapse(Tail(s))

(***************************************************************************)
(* Availability normaliser                                                 *)
(***************************************************************************)
in_stock == <<"i", "n", "_", "s", "t", "o", "c", "k">>
out_of_stock == <<"o", "u", "t", "_", "o", "f", "_", "s", "t", "o", "c", "k">>
preorder == <<"p", "r", "e", "o", "r", "d", "e", "r">>
on_display_to_order ==
    <<"o", "n", "_", "d", "i", "s", "p", "l", "a", "y", "_", "t", "o", "_",
      "o", "r", "d", "e", "r">>
limited_availability ==
    <<"l", "i", "m", "i", "t", "e", "d", "_", "a", "v", "a", "i", "l", "a",
      "b", "i", "l", "i", "t", "y">>

\* A synonym-table key written with spaces where the canonical value has "_".
spaced(s) == [i \in DOMAIN s |-> IF s[i] = "_" THEN " " ELSE s[i]]

_ALLOWED_AVAIL ==
    (spaced(in_stock) :> in_stock)
    @@ (in_stock :> in_stock)
    @@ (<<"a", "v", "a", "i", "l", "a", "b", "l", "e">> :> in_stock)
    @@ (preorder :> preorder)
    @@ (spaced(out_of_stock) :> out_of_stock)
    @@ (out_of_stock :> out_of_stock)
    @@ (spaced(on_display_to_order) :> on_display_to_order)
    @@ (on_display_to_order :> on_display_to_order)
    @@ (spaced(limited_availability) :> limited_availability)
    @@ (limited_availability :> limited_availability)
    @@ (<<"d", "o", "s", "t", "eogonek", "p", "n", "y">> :> in_stock)
    @@ (<<"n", "i", "e", "d", "o", "s", "t", "eogonek", "p", "n", "y">>
            :> out_of_stock)
    @@ (<<"b", "r", "a", "k">> :> out_of_stock)

\* The normaliser with the lower() call left out.
normalize_availability_nolower(v, dflt) ==
    IF ~Truthy(v) THEN dflt
    ELSE LET key == collapse(strip(v))
         IN  IF key \in DOMAIN _ALLOWED_AVAIL THEN _ALLOWED_AVAIL[key] ELSE dflt

\* normalize_availability(val), reading the global DEFAULT_AVAILABILITY (dflt).
normalize_availability(v, dflt) ==
    IF ~Truthy(v) THEN dflt
    ELSE LET key == collapse(lower(strip(v)))
         IN  IF key \in DOMAIN _ALLOWED_AVAIL THEN _ALLOWED_AVAIL[key] ELSE dflt

(***************************************************************************)
(* Parsed documents                                                        *)
(*                                                                         *)
(* An ElementTree is the sequence of its elements in document order; each  *)
(* element is [tag, parent, text] with parent the position of its parent   *)
(* (0 for the root) and text None when the element has no text.  Tags of   *)
(* the Google namespace are written with the prefix "g:".                  *)
(***************************************************************************)
NoTree == <<>>

Node(tag, parent, text) == [tag |-> tag, parent |-> parent, text |-> text]

Min(S) == CHOOSE x \in S : \A y \in S : x <= y

\* Python's "a or b" on optional text values.
Or(a, b) == IF Truthy(a) THEN a ELSE b

\* Element.find(tag): the first direct child of element n with that tag, 0 if none.
find(doc, n, tag) ==
    LET c == {i \in DOMAIN doc : doc[i].parent = n /\ doc[i].tag = tag}
    IN  IF c = {} THEN 0 ELSE Min(c)

\* Element.findtext(tag, default=None): None when there is no such child,
\* "" when the child has no text.
findtext(doc, n, tag) ==
    LET c == find(doc, n, tag)
    IN  IF c = 0 THEN None
        ELSE IF doc[c].text = None THEN <<>> ELSE doc[c].text

\* root.findall(".//item"): every descendant of the root named item, in
\* document order (the root itself is not among them).
findall_item(doc) ==
    SelectSeq([i \in DOMAIN doc |-> i], LAMBDA i : i > 1 /\ doc[i].tag = "item")

\* root.iter(): every element, the root included, in document order.
iter(doc) == [i \in DOMAIN doc |-> i]

Item(id, availability, price) ==
    [id |-> id, availability |-> availability, price |-> price]

\* The availability and price expressions shared by both passes.
item_availability(availability, dflt) ==
    IF Truthy(availability) THEN normalize_availability(availability, dflt)
    ELSE dflt

item_price(price) == IF Truthy(price) THEN strip(price) ELSE None

\* Loop 1 of extract_items over the remaining item elements its.
RECURSIVE primary_pass(_, _, _, _)
primary_pass(doc, dflt, its, acc) ==
    IF its = <<>> THEN acc
    ELSE LET it == Head(its)
             gid == Or(findtext(doc, it, "g:id"), findtext(doc, it, "id"))
             availability == Or(findtext(doc, it, "g:availability"),
                                findtext(doc, it, "availability"))
             price == Or(findtext(doc, it, "g:price"), findtext(doc, it, "price"))
         IN  IF ~Truthy(gid)
             THEN primary_pass(doc, dflt, Tail(its), acc)
             ELSE primary_pass(doc, dflt, Tail(its),
                      Append(acc, Item(strip(gid),
                                       item_availability(availability, dflt),
                                       item_price(price))))

\* Loop 2 without the "if gid in seen: continue" test.
RECURSIVE fallback_pass_nodedup(_, _, _, _, _)
fallback_pass_nodedup(doc, dflt, nodes, seen, acc) ==
    IF nodes = <<>> THEN acc
    ELSE LET node == Head(nodes)
             gid_el == find(doc, node, "g:id")
         IN  IF gid_el = 0 \/ ~(Truthy(doc[gid_el].text)
                                /\ strip(doc[gid_el].text) # <<>>)
             THEN fallback_pass_nodedup(doc, dflt, Tail(nodes), seen, acc)
             ELSE LET gid == strip(doc[gid_el].text)
                      availability == findtext(doc, node, "g:availability")
                      price == findtext(doc, node, "g:price")
                  IN  fallback_pass_nodedup(doc, dflt, Tail(nodes),
                               seen \cup {gid},
                               Append(acc, Item(gid,
                                                item_availability(availability, dflt),
                                                item_price(price))))

\* Loop 2 of extract_items over the remaining nodes, with the set seen.
RECURSIVE fallback_pass(_, _, _, _, _)
fallback_pass(doc, dflt, nodes, seen, acc) ==
    IF nodes = <<>> THEN acc
    ELSE LET node == Head(nodes)
             gid_el == find(doc, node, "g:id")
         IN  IF gid_el = 0 \/ ~(Truthy(doc[gid_el].text)
                                /\ strip(doc[gid_el].text) # <<>>)
             THEN fallback_pass(doc, dflt, Tail(nodes), seen, acc)
             ELSE LET gid == strip(doc[gid_el].text)
                      availability == findtext(doc, node, "g:availability")
                      price == findtext(doc, node, "g:price")
                  IN  IF gid \in seen
                      THEN fallback_pass(doc, dflt, Tail(nodes), seen, acc)
                      ELSE fallback_pass(doc, dflt, Tail(nodes),
                               seen \cup {gid},
                               Append(acc, Item(gid,
                                                item_availability(availability, dflt),
                                                item_price(price))))

\* extract_items with the "if not items" guard of the second loop dropped.
extract_items_bothpasses(doc, dflt) ==
    LET first == primary_pass(doc, dflt, findall_item(doc), <<>>)
    IN  fallback_pass(doc, dflt, iter(doc), {}, first)

\* extract_items up to its final test: the list the two loops build.  The
\* RuntimeError raised for an empty list is in the action Extract.
extract_items(doc, dflt) ==
    LET first == primary_pass(doc, dflt, findall_item(doc), <<>>)
    IN  IF first = <<>>
        THEN fallback_pass(doc, dflt, iter(doc), {}, first)
        ELSE first

(***************************************************************************)
(* Writers                                                                 *)
(***************************************************************************)
\* The children write_xml gives one <item>: (tag, text) pairs in order; the
\* variant that tests the price against None instead of its truth value.
xml_item_pricenotnone(it, store) ==
    <<<<"g:id", it.id>>, <<"g:store_code", store>>,
      <<"g:availability", it.availability>>>>
    \o (IF it.price # None THEN <<<<"g:price", it.price>>>> ELSE <<>>)

\* The children write_xml gives one <item>: (tag, text) pairs in order.
xml_item(it, store) ==
    <<<<"g:id", it.id>>, <<"g:store_code", store>>,
      <<"g:availability", it.availability>>>>
    \o (IF Truthy(it.price) THEN <<<<"g:price", it.price>>>> ELSE <<>>)

\* The <item> elements write_xml appends to the channel, in order.
write_xml(its, store) == [i \in DOMAIN its |-> xml_item(its[i], store)]

TsvHeader == <<<<"i", "d">>,
               <<"s", "t", "o", "r", "e", "_", "c", "o", "d", "e">>,
               <<"a", "v", "a", "i", "l", "a", "b", "i", "l", "i", "t", "y">>,
               <<"p", "r", "i", "c", "e">>>>

\* The row write_tsv writes for one item.
tsv_row(it, store) ==
    <<it.id, store, it.availability, Or(it.price, <<>>)>>

\* The rows write_tsv writes: the header, then one row per item.
write_tsv(its, store) ==
    <<TsvHeader>> \o [i \in DOMAIN its |-> tsv_row(its[i], store)]

NoFile == [state |-> "absent", content |-> <<>>]

(***************************************************************************)
(* Inputs: environments, HTTP responses and source documents               *)
(***************************************************************************)
MaxEntries == 3         \* entries of a document given to extract_items
MaxFetchedEntries == 2  \* entries of a document served to fetch_xml
MaxRun == 2             \* longest whitespace run put into an availability

MaxAttempts == 3        \* range(3) in fetch_xml

Url == <<"s", "h", "o", "p", ".", "p", "l", "/", "f", "e", "e", "d">>
MAIN == <<"M", "A", "I", "N">>
S2 == <<"S", "2">>

A1 == <<"A", "1">>
B1 == <<"B", "1">>
B2 == <<"B", "2">>
B3 == <<"B", "3">>

\* An entry of a source document: an element and its field children.
Entry(tag, fields) == [tag |-> tag, fields |-> fields]

EntryShapes ==
    { Entry("item", << <<"g:id", A1>>,
                       <<"g:availability", <<"i", "n", " ", "s", "t", "o", "c", "k">>>>,
                       <<"g:price", <<"9">>>> >>),
      Entry("item", << <<"g:id", <<" ", "\n">>>>,
                       <<"g:availability", preorder>> >>),
      Entry("item", << <<"g:id", None>>,
                       <<"id", <<" ", "A", "2">>>>,
                       <<"availability", <<"B", "r", "a", "k">>>>,
                       <<"price", <<" ">>>> >>),
      Entry("item", << <<"title", <<"x">>>> >>),
      Entry("entry", << <<"g:id", B1>>,
                        <<"g:availability", <<"I", "n", " ", "\t", "S", "t", "o", "c", "k">>>>,
                        <<"g:price", <<"5", " ">>>> >>),
      Entry("entry", << <<"g:id", <<" ", "B", "1">>>>,
                        <<"g:availability", <<"b", "r", "a", "k">>>> >>),
      Entry("entry", << <<"g:id", B2>>,
                        <<"availability", spaced(out_of_stock)>>,
                        <<"g:price", <<" ">>>> >>),
      Entry("entry", << <<"g:id", None>>,
                        <<"g:id", B3>>,
                        <<"id", B3>> >>) }

\* All sequences over S of length at most n.
RECURSIVE SeqsUpTo(_, _)
SeqsUpTo(S, n) ==
    IF n = 0 THEN {<<>>}
    ELSE LET shorter == SeqsUpTo(S, n - 1)
         IN  shorter \cup {Append(q, x) : q \in shorter, x \in S}

\* The elements of one entry: the entry itself under parent, then its fields.
EntryNodes(e, parent, at) ==
    <<Node(e.tag, parent, None)>>
    \o [k \in DOMAIN e.fields |-> Node(e.fields[k][1], at, e.fields[k][2])]

\* Entries appended after acc, all under parent (nested = FALSE) or each
\* inside the one before it (nested = TRUE).
RECURSIVE Build(_, _, _, _)
Build(es, parent, nested, acc) ==
    IF es = <<>> THEN acc
    ELSE LET at == Len(acc) + 1
         IN  Build(Tail(es), IF nested THEN at ELSE parent, nested,
                   acc \o EntryNodes(Head(es), parent, at))

\* rss/channel/entries, feed/entries, and entries nested from the root down.
Layouts == {"channel", "flat", "nested"}

Document(layout, es) ==
    CASE layout = "channel" ->
           Build(es, 2, FALSE, <<Node("rss", 0, None), Node("channel", 1, None)>>)
      [] layout = "flat" ->
           Build(es, 1, FALSE, <<Node("feed", 0, None)>>)
      [] layout = "nested" ->
           IF es = <<>> THEN <<Node("rss", 0, None)>>
           ELSE Build(es, 0, TRUE, <<>>)

Documents(n) == {Document(l, es) : l \in Layouts, es \in SeqsUpTo(EntryShapes, n)}

\* Compressed bodies are the plain body behind one framing character: "GZ"
\* for a gzip member, "DF" for a raw deflate stream, "ZL" for a zlib stream,
\* "BR" for a coding the script does not know.
gzip_decompress(data) == IF data # <<>> /\ Head(data) = "GZ" THEN Tail(data) ELSE None
raw_inflate(data) == IF data # <<>> /\ Head(data) = "DF" THEN Tail(data) ELSE None
zlib_decompress(data) == IF data # <<>> /\ Head(data) = "ZL" THEN Tail(data) ELSE None

\* Python's "sub in s" on text.
Contains(s, sub) ==
    \E i \in 1..(Len(s) - Len(sub) + 1) : SubSeq(s, i, i + Len(sub) - 1) = sub

\* _decompress_if_needed(data, encoding); a decompressor that raises (None
\* above) makes it return the data unchanged.
_decompress_if_needed(data, encoding) ==
    IF encoding = <<>> THEN data
    ELSE LET enc == lower(encoding)
         IN  IF Contains(enc, <<"g", "z", "i", "p">>)
             THEN (IF gzip_decompress(data) # None THEN gzip_decompress(data) ELSE data)
             ELSE IF Contains(enc, <<"d", "e", "f", "l", "a", "t", "e">>)
             THEN (IF raw_inflate(data) # None THEN raw_inflate(data)
                   ELSE IF zlib_decompress(data) # None THEN zlib_decompress(data)
                   ELSE data)
             ELSE data

\* An HTTP exchange: urlopen raises (error), or the body raw arrives with the
\* Content-Encoding header cenc; doc is what ET.fromstring makes of the
\* decoded body, NoTree when that is not well-formed.
Response(error, cenc, raw, doc) ==
    [error |-> error, cenc |-> cenc, raw |-> raw, doc |-> doc]

\* Plain bodies with their parse.
Bodies ==
    {<<b, NoTree>> : b \in {<<>>, <<" ", "\n">>, <<"O", "K">>, <<"<", "r", "s", "s">>}}
    \cup {<<<<"\n", "<", "r", "s", "s", ">">>, d>> : d \in Documents(MaxFetchedEntries)}

\* Content-Encoding header and the framing of the body that comes with it.
Framings ==
    { <<<<>>, <<>>>>,
      <<<<"g", "z", "i", "p">>, <<"GZ">>>>,
      <<<<"G", "Z", "I", "P">>, <<>>>>,
      <<<<"d", "e", "f", "l", "a", "t", "e">>, <<"DF">>>>,
      <<<<"d", "e", "f", "l", "a", "t", "e">>, <<"ZL">>>> }

Responses ==
    {Response(TRUE, <<>>, <<>>, NoTree)}
    \cup {Response(FALSE, f[1], f[2] \o b[1], b[2]) : f \in Framings, b \in Bodies}
    \cup {Response(FALSE, <<"b", "r">>, <<"BR">> \o b[1], NoTree) : b \in Bodies}

\* A required environment variable that is unset or set to "".
Environments == {None, <<>>}

\* Whitespace runs and availability spellings given to the normaliser.
Blank == {" ", "\t"}
Runs == SeqsUpTo(Blank, MaxRun) \ {<<>>}
Leads == SeqsUpTo(Blank, MaxRun)
Trails == {<<>>, <<" ">>, <<"\n">>}
Styles == {"lower", "upper", "title"}

RECURSIVE Respace(_, _)
Respace(s, gap) ==
    IF s = <<>> THEN <<>>
    ELSE (IF Head(s) = " " THEN gap ELSE <<Head(s)>>) \o Respace(Tail(s), gap)

Cased(s, style) ==
    CASE style = "lower" -> s
      [] style = "upper" -> [i \in DOMAIN s |-> upperChar(s[i])]
      [] style = "title" -> [i \in DOMAIN s |-> IF i = 1 THEN upperChar(s[i]) ELSE s[i]]

Unknown ==
    { <<"s", "o", "o", "n">>,
      <<"i", "n", "s", "t", "o", "c", "k">>,
      <<"i", "n", "-", "s", "t", "o", "c", "k">>,
      <<"i", "n", " ", "s", "t", "o", "c", "k", " ", "n", "o", "w">>,
      <<"i", "n", "_", " ", "s", "t", "o", "c", "k">>,
      <<"o", "u", "t", " ", "o", "f", "_", "s", "t", "o", "c", "k">> }

Spellings(base) ==
    {lead \o Cased(Respace(base, gap), style) \o trail :
        lead \in Leads, gap \in Runs, style \in Styles, trail \in Trails}

AvailInputs ==
    {None, <<>>} \cup Leads \cup Runs
    \cup UNION {Spellings(b) : b \in DOMAIN _ALLOWED_AVAIL \cup Unknown}

Defaults == {in_stock, out_of_stock}
AnyDefaults == Defaults \cup {<<>>, <<"s", "o", "o", "n">>}

(***************************************************************************)
(* The script                                                              *)
(***************************************************************************)
\* The static part of every initial state.
Fresh ==
    /\ attempt = 0
    /\ outcomes = <<>>
    /\ slept = <<>>
    /\ tree = NoTree
    /\ items = <<>>
    /\ distDir = FALSE
    /\ xmlFile = NoFile
    /\ tsvFile = NoFile
    /\ exitCode = -1
    /\ err = "none"
    /\ val = None
    /\ ret = None

\* The process starts: the environment is read (lines 20-23).
Init ==
    /\ SOURCE_FEED_URL \in Environments \cup {Url}
    /\ STORE_CODE \in Environments \cup {MAIN}
    /\ DEFAULT_AVAILABILITY \in Defaults
    /\ pc = "config"
    /\ Fresh

\* The module-level check with "and" for "or".
ConfigCheck_and ==
    /\ pc = "config"
    /\ IF ~Truthy(SOURCE_FEED_URL) /\ ~Truthy(STORE_CODE)
       THEN pc' = "exited" /\ exitCode' = 2 /\ err' = "config"
       ELSE pc' = "fetch" /\ UNCHANGED <<exitCode, err>>
    /\ UNCHANGED <<SOURCE_FEED_URL, STORE_CODE, DEFAULT_AVAILABILITY, attempt,
                   outcomes, slept, tree, items, distDir, xmlFile, tsvFile,
                   val, ret>>

\* The module-level check of the required variables; main() starts when it passes.
ConfigCheck ==
    /\ pc = "config"
    /\ IF ~Truthy(SOURCE_FEED_URL) \/ ~Truthy(STORE_CODE)
       THEN pc' = "exited" /\ exitCode' = 2 /\ err' = "config"
       ELSE pc' = "fetch" /\ UNCHANGED <<exitCode, err>>
    /\ UNCHANGED <<SOURCE_FEED_URL, STORE_CODE, DEFAULT_AVAILABILITY, attempt,
                   outcomes, slept, tree, items, distDir, xmlFile, tsvFile,
                   val, ret>>

\* What one pass through the try block of fetch_xml comes to.
Outcome(resp) ==
    IF resp.error THEN "transport"
    ELSE LET data == strip(_decompress_if_needed(resp.raw, resp.cenc))
         IN  IF data = <<>> THEN "empty"
             ELSE IF Head(data) # "<" THEN "nonxml"
             ELSE IF resp.doc = NoTree THEN "parse"
             ELSE "ok"

\* The sleep with the 0-based loop variable.
Backoff_zero_based(a) == 2 * a

\* The argument of time.sleep after the failure of attempt a (0-based).
Backoff(a) == 2 * (a + 1)

\* One iteration of the loop of fetch_xml: the request, the checks of the
\* body, the parse, and the except clause.
FetchAttempt ==
    /\ pc = "fetch"
    /\ attempt < MaxAttempts
    /\ \E resp \in Responses :
         LET o == Outcome(resp)
         IN  /\ outcomes' = Append(outcomes, o)
             /\ IF o = "ok"
                THEN /\ tree' = resp.doc
                     /\ pc' = "parse"
                     /\ UNCHANGED <<attempt, slept, exitCode, err>>
                ELSE IF attempt < MaxAttempts - 1
                THEN /\ slept' = Append(slept, Backoff(attempt))
                     /\ attempt' = attempt + 1
                     /\ UNCHANGED <<tree, pc, exitCode, err>>
                ELSE /\ err' = "fetch"
                     /\ exitCode' = 1
                     /\ pc' = "exited"
                     /\ UNCHANGED <<attempt, slept, tree>>
    /\ UNCHANGED <<SOURCE_FEED_URL, STORE_CODE, DEFAULT_AVAILABILITY, items,
                   distDir, xmlFile, tsvFile, val, ret>>

\* extract_items that returns the empty list instead of raising.
Extract_noraise ==
    /\ pc = "parse"
    /\ items' = extract_items(tree, DEFAULT_AVAILABILITY)
    /\ pc' = "ensure_dist"
    /\ UNCHANGED <<SOURCE_FEED_URL, STORE_CODE, DEFAULT_AVAILABILITY, attempt,
                   outcomes, slept, tree, distDir, xmlFile, tsvFile, exitCode,
                   err, val, ret>>

\* items = extract_items(tree): the two loops, then the RuntimeError for an
\* empty list, which nothing catches.
Extract ==
    /\ pc = "parse"
    /\ LET its == extract_items(tree, DEFAULT_AVAILABILITY)
       IN  IF its = <<>>
           THEN /\ err' = "structural"
                /\ exitCode' = 1
                /\ pc' = "exited"
                /\ UNCHANGED items
           ELSE /\ items' = its
                /\ pc' = "ensure_dist"
                /\ UNCHANGED <<exitCode, err>>
    /\ UNCHANGED <<SOURCE_FEED_URL, STORE_CODE, DEFAULT_AVAILABILITY, attempt,
                   outcomes, slept, tree, distDir, xmlFile, tsvFile, val, ret>>

\* ensure_dist(): mkdir(parents=True, exist_ok=True) succeeds.
EnsureDist ==
    /\ pc = "ensure_dist"
    /\ distDir' = TRUE
    /\ pc' = "write_xml"
    /\ UNCHANGED <<SOURCE_FEED_URL, STORE_CODE, DEFAULT_AVAILABILITY, attempt,
                   outcomes, slept, tree, items, xmlFile, tsvFile, exitCode,
                   err, val, ret>>

\* ensure_dist(): mkdir raises OSError, which nothing catches.
EnsureDistFails ==
    /\ pc = "ensure_dist"
    /\ err' = "io"
    /\ exitCode' = 1
    /\ pc' = "exited"
    /\ UNCHANGED <<SOURCE_FEED_URL, STORE_CODE, DEFAULT_AVAILABILITY, attempt,
                   outcomes, slept, tree, items, distDir, xmlFile, tsvFile,
                   val, ret>>

\* write_xml(items, xml_out) runs to its end.
WriteXml ==
    /\ pc = "write_xml"
    /\ xmlFile' = [state |-> "complete", content |-> write_xml(items, STORE_CODE)]
    /\ pc' = "write_tsv"
    /\ UNCHANGED <<SOURCE_FEED_URL, STORE_CODE, DEFAULT_AVAILABILITY, attempt,
                   outcomes, slept, tree, items, distDir, tsvFile, exitCode,
                   err, val, ret>>

\* tree.write raises OSError: on opening the file (nothing is left) or while
\* writing (a truncated file is left).  Nothing catches it.
WriteXmlFails ==
    /\ pc = "write_xml"
    /\ \E left \in {"absent", "partial"} :
         xmlFile' = [state |-> left, content |-> <<>>]
    /\ err' = "io"
    /\ exitCode' = 1
    /\ pc' = "exited"
    /\ UNCHANGED <<SOURCE_FEED_URL, STORE_CODE, DEFAULT_AVAILABILITY, attempt,
                   outcomes, slept, tree, items, distDir, tsvFile, val, ret>>

\* write_tsv(items, tsv_out) runs to its end; main prints the summary and
\* the process ends with status 0.
WriteTsv ==
    /\ pc = "write_tsv"
    /\ tsvFile' = [state |-> "complete", content |-> write_tsv(items, STORE_CODE)]
    /\ exitCode' = 0
    /\ pc' = "exited"
    /\ UNCHANGED <<SOURCE_FEED_URL, STORE_CODE, DEFAULT_AVAILABILITY, attempt,
                   outcomes, slept, tree, items, distDir, xmlFile, err, val, ret>>

\* outpath.open or a writerow raises OSError.  Nothing catches it.
WriteTsvFails ==
    /\ pc = "write_tsv"
    /\ \E left \in {"absent", "partial"} :
         tsvFile' = [state |-> left, content |-> <<>>]
    /\ err' = "io"
    /\ exitCode' = 1
    /\ pc' = "exited"
    /\ UNCHANGED <<SOURCE_FEED_URL, STORE_CODE, DEFAULT_AVAILABILITY, attempt,
                   outcomes, slept, tree, items, distDir, xmlFile, val, ret>>

Next ==
    \/ ConfigCheck
    \/ FetchAttempt
    \/ Extract
    \/ EnsureDist
    \/ EnsureDistFails
    \/ WriteXml
    \/ WriteXmlFails
    \/ WriteTsv
    \/ WriteTsvFails

\* A run of the script from process start.
Spec == Init /\ [][Next]_vars

(***************************************************************************)
(* extract_items and the writers on a wider set of documents: the run from *)
(* the point where fetch_xml has returned a document on its first attempt. *)
(***************************************************************************)
InitExtract ==
    /\ SOURCE_FEED_URL = Url
    /\ STORE_CODE \in {MAIN, S2}
    /\ DEFAULT_AVAILABILITY \in Defaults
    /\ pc = "parse"
    /\ attempt = 0
    /\ outcomes = <<"ok">>
    /\ slept = <<>>
    /\ tree \in Documents(MaxEntries)
    /\ items = <<>>
    /\ distDir = FALSE
    /\ xmlFile = NoFile
    /\ tsvFile = NoFile
    /\ exitCode = -1
    /\ err = "none"
    /\ val = None
    /\ ret = None

NextExtract ==
    \/ Extract
    \/ EnsureDist
    \/ WriteXml
    \/ WriteTsv

SpecExtract == InitExtract /\ [][NextExtract]_vars

(***************************************************************************)
(* normalize_availability called on its own                                *)
(***************************************************************************)
InitNorm ==
    /\ SOURCE_FEED_URL = Url
    /\ STORE_CODE = MAIN
    /\ DEFAULT_AVAILABILITY \in AnyDefaults
    /\ pc = "normalize"
    /\ attempt = 0
    /\ outcomes = <<>>
    /\ slept = <<>>
    /\ tree = NoTree
    /\ items = <<>>
    /\ distDir = FALSE
    /\ xmlFile = NoFile
    /\ tsvFile = NoFile
    /\ exitCode = -1
    /\ err = "none"
    /\ val \in AvailInputs
    /\ ret = None

Normalize ==
    /\ pc = "normalize"
    /\ ret' = normalize_availability(val, DEFAULT_AVAILABILITY)
    /\ pc' = "returned"
    /\ UNCHANGED <<SOURCE_FEED_URL, STORE_CODE, DEFAULT_AVAILABILITY, attempt,
                   outcomes, slept, tree, items, distDir, xmlFile, tsvFile,
                   exitCode, err, val>>

NextNorm == Normalize

SpecNorm == InitNorm /\ [][NextNorm]_vars

(***************************************************************************)
(* Properties                                                              *)
(***************************************************************************)
Canonical ==
    {in_stock, out_of_stock, preorder, on_display_to_order, limited_availability}

Failed == Cardinality({i \in DOMAIN outcomes : outcomes[i] # "ok"})

\* C1: fetch_xml makes at most 3 attempts; after the k-th failure, k = 1, 2,
\* it sleeps 2*k seconds; the third failure is not followed by a sleep and
\* ends the run with the error; a success is the last attempt.  Transport
\* and content failures are counted alike.
C1_RetryPolicy ==
    /\ Len(outcomes) <= 3
    /\ \A i \in DOMAIN outcomes : outcomes[i] = "ok" => i = Len(outcomes)
    /\ slept = [k \in 1..(IF Failed < 2 THEN Failed ELSE 2) |-> 2 * k]
    /\ Failed = 3 <=> err = "fetch"
    /\ err = "fetch" => pc = "exited" /\ exitCode = 1 /\ tree = NoTree
    /\ pc = "fetch" => Failed = Len(outcomes) /\ Failed < 3

C1_Witness ==
    /\ pc = "exited"
    /\ err = "fetch"
    /\ outcomes = <<"transport", "empty", "nonxml">>
    /\ slept = <<2, 4>>

\* C2: when the run has ended, both output files have been written in full
\* or neither exists.
C2_NoPartialOutput ==
    pc = "exited" =>
        \/ xmlFile.state = "complete" /\ tsvFile.state = "complete"
        \/ xmlFile.state = "absent" /\ tsvFile.state = "absent"

\* C3: every Item extract_items returns has a non-empty id.
C3_EveryItemHasId ==
    \A i \in DOMAIN items : items[i].id # <<>>

\* C4: normalize_availability returns one of the five canonical values,
\* whatever the input and the configured default.
C4_NormalizerCanonical ==
    pc = "returned" => ret \in Canonical

\* The words of a text: its maximal runs of non-whitespace, in order.
WordStarts(s) ==
    {i \in DOMAIN s : s[i] \notin Whitespace /\ (i = 1 \/ s[i - 1] \in Whitespace)}

WordEnd(s, i) ==
    Min({j \in i..Len(s) : j = Len(s) \/ s[j + 1] \in Whitespace})

RECURSIVE JoinFrom(_, _)
JoinFrom(s, starts) ==
    IF starts = {} THEN <<>>
    ELSE LET i == Min(starts)
             word == [k \in 1..(WordEnd(s, i) - i + 1) |-> lowerChar(s[i + k - 1])]
         IN  word \o (IF starts = {i} THEN <<>> ELSE <<" ">>)
                  \o JoinFrom(s, starts \ {i})

\* The input trimmed, lowercased, with one space between its words.
NormalForm(s) == JoinFrom(s, WordStarts(s))

\* C5: an input whose normal form is a key of the synonym table yields that
\* key's value; every other input, None and "" included, yields the
\* configured default.
C5_NormalizerAgrees ==
    pc = "returned" =>
        IF val # None /\ NormalForm(val) \in DOMAIN _ALLOWED_AVAIL
        THEN ret = _ALLOWED_AVAIL[NormalForm(val)]
        ELSE ret = DEFAULT_AVAILABILITY

C5_Witness ==
    /\ pc = "returned"
    /\ val = <<" ", "\t", "O", "U", "T", "\t", " ", "O", "F", "\t", " ", "S",
               "T", "O", "C", "K", "\n">>
    /\ DEFAULT_AVAILABILITY = in_stock
    /\ ret = out_of_stock

\* The text of the child of an <item> of the XML output, None when absent.
XmlChild(el, tag) ==
    IF \E k \in DOMAIN el : el[k][1] = tag
    THEN el[Min({k \in DOMAIN el : el[k][1] = tag})][2]
    ELSE None

\* C6: the XML and the TSV output have one row per Item, in the order of
\* the item list, with the same id, store code, availability and price; the
\* XML has no price element exactly when the TSV price cell is empty.
C6_WritersAgree ==
    (xmlFile.state = "complete" /\ tsvFile.state = "complete") =>
        /\ Len(xmlFile.content) = Len(items)
        /\ Len(tsvFile.content) = Len(items) + 1
        /\ \A i \in DOMAIN items :
             LET el == xmlFile.content[i]
                 row == tsvFile.content[i + 1]
             IN  /\ Len(row) = 4
                 /\ XmlChild(el, "g:id") = items[i].id
                 /\ row[1] = items[i].id
                 /\ XmlChild(el, "g:store_code") = STORE_CODE
                 /\ row[2] = STORE_CODE
                 /\ XmlChild(el, "g:availability") = items[i].availability
                 /\ row[3] = items[i].availability
                 /\ XmlChild(el, "g:price") = None <=> row[4] = <<>>
                 /\ XmlChild(el, "g:price") # None =>
                        /\ XmlChild(el, "g:price") = row[4]
                        /\ row[4] = items[i].price

C6_Witness ==
    /\ xmlFile.state = "complete"
    /\ tsvFile.state = "complete"
    /\ Len(items) = 3
    /\ items[1].price = <<"9">>
    /\ items[2].price = None
    /\ items[3].price = <<>>

\* C7: with the feed URL or the store code unset or empty, no fetch attempt
\* is made, neither dist/ nor an output file is created, and the process
\* ends with a non-zero status.
C7_MissingConfigStopsEarly ==
    (~Truthy(SOURCE_FEED_URL) \/ ~Truthy(STORE_CODE)) =>
        /\ outcomes = <<>>
        /\ slept = <<>>
        /\ ~distDir
        /\ xmlFile = NoFile
        /\ tsvFile = NoFile
        /\ pc \in {"config", "exited"}
        /\ pc = "exited" => exitCode > 0

C7_Witness ==
    /\ pc = "exited"
    /\ SOURCE_FEED_URL = Url
    /\ STORE_CODE = <<>>
    /\ exitCode = 2

\* The id the first loop of extract_items reads from an item element.
PrimaryId(doc, n) == Or(findtext(doc, n, "g:id"), findtext(doc, n, "id"))

\* The item elements that yield an Item in the first loop, in document order.
PrimaryHits(doc) ==
    SelectSeq([i \in DOMAIN doc |-> i],
              LAMBDA i : i > 1 /\ doc[i].tag = "item" /\ Truthy(PrimaryId(doc, i)))

\* The elements with a non-blank first direct g:id child.
Bearing(doc) ==
    {n \in DOMAIN doc :
        \E c \in DOMAIN doc :
            /\ doc[c].parent = n /\ doc[c].tag = "g:id"
            /\ \A b \in 1..(c - 1) : ~(doc[b].parent = n /\ doc[b].tag = "g:id")
            /\ doc[c].text # None
            /\ \E k \in DOMAIN doc[c].text : doc[c].text[k] \notin Whitespace}

\* The trimmed identifier of a bearing element.
BearingId(doc, n) == strip(findtext(doc, n, "g:id"))

\* C8: a fetched document from which neither pass yields an Item ends the
\* run with a non-zero status at extraction: the successful fetch stays the
\* last attempt, dist/ is not created and no output file is written.
C8_StructuralErrorFatal ==
    (tree # NoTree /\ pc # "parse"
     /\ PrimaryHits(tree) = <<>> /\ Bearing(tree) = {}) =>
        /\ pc = "exited"
        /\ err = "structural"
        /\ exitCode > 0
        /\ outcomes[Len(outcomes)] = "ok"
        /\ Cardinality({i \in DOMAIN outcomes : outcomes[i] = "ok"}) = 1
        /\ ~distDir
        /\ xmlFile = NoFile
        /\ tsvFile = NoFile

C8_Witness ==
    /\ err = "structural"
    /\ pc = "exited"
    /\ Len(tree) > 2
    /\ outcomes = <<"empty", "ok">>

\* C9: when some item element yields an Item, the result is exactly the
\* Items of those item elements in document order; Items from elements
\* found by their direct g:id child appear only when no item element
\* yields one.
C9_FirstMatchWins ==
    (tree # NoTree /\ pc # "parse") =>
        LET hits == PrimaryHits(tree)
        IN  /\ hits # <<>> =>
                 /\ Len(items) = Len(hits)
                 /\ \A k \in DOMAIN hits :
                      /\ items[k].id = strip(PrimaryId(tree, hits[k]))
                      /\ items[k].availability =
                           item_availability(
                               Or(findtext(tree, hits[k], "g:availability"),
                                  findtext(tree, hits[k], "availability")),
                               DEFAULT_AVAILABILITY)
                      /\ items[k].price =
                           item_price(Or(findtext(tree, hits[k], "g:price"),
                                         findtext(tree, hits[k], "price")))
            /\ hits = <<>> =>
                 {items[k].id : k \in DOMAIN items}
                     = {BearingId(tree, n) : n \in Bearing(tree)}

C9_Witness ==
    /\ pc = "exited"
    /\ exitCode = 0
    /\ Len(PrimaryHits(tree)) = 1
    /\ \E n \in Bearing(tree) : tree[n].tag = "entry" /\ BearingId(tree, n) = B2
    /\ Len(items) = 1

\* The first element, in document order, bearing the identifier id.
FirstBearing(doc, id) == Min({n \in Bearing(doc) : BearingId(doc, n) = id})

\* C10: when the second loop runs, no two Items have the same id; there is
\* one Item for each distinct identifier borne by an element, built from
\* the first element bearing it, and the Items are in first-seen order.
C10_FallbackDedup ==
    (tree # NoTree /\ pc # "parse" /\ PrimaryHits(tree) = <<>>) =>
        /\ \A i, j \in DOMAIN items : items[i].id = items[j].id => i = j
        /\ {items[k].id : k \in DOMAIN items}
               = {BearingId(tree, n) : n \in Bearing(tree)}
        /\ \A k \in DOMAIN items :
             LET n == FirstBearing(tree, items[k].id)
             IN  /\ items[k].availability =
                       item_availability(findtext(tree, n, "g:availability"),
                                         DEFAULT_AVAILABILITY)
                 /\ items[k].price = item_price(findtext(tree, n, "g:price"))
        /\ \A i, j \in DOMAIN items :
             i < j => FirstBearing(tree, items[i].id) < FirstBearing(tree, items[j].id)

C10_Witness ==
    /\ pc = "exited"
    /\ exitCode = 0
    /\ PrimaryHits(tree) = <<>>
    /\ Cardinality(Bearing(tree)) = 3
    /\ Len(items) = 2
    /\ items[1].id = B1
    /\ items[2].id = B2
    /\ items[1].availability = in_stock
    /\ DEFAULT_AVAILABILITY = out_of_stock

====
